---- MODULE Spec2Model ----
(***************************************************************************)
(* Model of src/chunking_method_LAB_2.py: the three chunking functions     *)
(* chunk_text_charwise, chunk_text_sentencewise and chunk_text_tokenwise.  *)
(* One behaviour is one call: Init draws the function and its arguments,   *)
(* the actions are the steps of the function's body (one loop iteration    *)
(* per step), and the call ends in pc = "done" (return chunks) or in       *)
(* pc = "raised" (an exception leaves the function).                       *)
(* A string is a sequence of one-character strings.                        *)
(***************************************************************************)
EXTENDS Integers, Sequences, FiniteSets, TLC

\* ---------------------------------------------------------------- bounds
MaxLen == 5
MaxSize == 4
MaxOverlap == 4
MaxPiece == 2
\* longest output the model follows; a run that returns emits at most one
\* chunk per sentence plus the final one, so only divergent runs reach it
MaxChunks == MaxLen + 2

Chars == {"a", ".", " "}
Whitespace == {" "}
Punct == {".", "!", "?"}

Min(a, b) == IF a < b THEN a ELSE b
Max(a, b) == IF a > b THEN a ELSE b

\* all strings of length 0..n over Chars
Texts(n) == UNION {[1..k -> Chars] : k \in 0..n}

\* ------------------------------------------------------ Python primitives
\* s[a:b] for 0 <= a, with Python's clamping of b to len(s)
Slice(s, a, b) == SubSeq(s, a + 1, Min(b, Len(s)))

\* s[-k:] for k > 0: the last k characters, the whole string if k >= len(s)
LastChars(s, k) == IF k >= Len(s) THEN s ELSE SubSeq(s, Len(s) - k + 1, Len(s))

RECURSIVE LStrip(_)
LStrip(s) == IF s # <<>> /\ Head(s) \in Whitespace THEN LStrip(Tail(s)) ELSE s

RECURSIVE RStrip(_)
RStrip(s) ==
    IF s # <<>> /\ s[Len(s)] \in Whitespace THEN RStrip(SubSeq(s, 1, Len(s) - 1)) ELSE s

\* str.strip()
Strip(s) == RStrip(LStrip(s))

\* concatenation of a sequence of strings
RECURSIVE Concat(_)
Concat(ss) == IF ss = <<>> THEN <<>> ELSE Head(ss) \o Concat(Tail(ss))

\* " ".join(ss)
RECURSIVE Join(_)
Join(ss) ==
    IF ss = <<>> THEN <<>>
    ELSE IF Len(ss) = 1 THEN Head(ss)
    ELSE Head(ss) \o <<" ">> \o Join(Tail(ss))

\* str.split(): the maximal runs of non-whitespace characters
RECURSIVE SplitAcc(_, _)
SplitAcc(s, word) ==
    IF s = <<>> THEN (IF word = <<>> THEN <<>> ELSE <<word>>)
    ELSE IF Head(s) \in Whitespace
         THEN (IF word = <<>> THEN <<>> ELSE <<word>>) \o SplitAcc(Tail(s), <<>>)
         ELSE SplitAcc(Tail(s), Append(word, Head(s)))

Words(s) == SplitAcc(s, <<>>)

\* _SENTENCE_SPLIT_RE.split(text): cut out every maximal whitespace run that
\* immediately follows one of . ! ?
RECURSIVE SkipSpace(_)
SkipSpace(s) == IF s # <<>> /\ Head(s) \in Whitespace THEN SkipSpace(Tail(s)) ELSE s

RECURSIVE ReSplitAcc(_, _)
ReSplitAcc(s, piece) ==
    IF s = <<>> THEN <<piece>>
    ELSE IF Head(s) \in Whitespace /\ piece # <<>> /\ piece[Len(piece)] \in Punct
         THEN <<piece>> \o ReSplitAcc(SkipSpace(s), <<>>)
         ELSE ReSplitAcc(Tail(s), Append(piece, Head(s)))

ReSplit(s) == ReSplitAcc(s, <<>>)

\* [s.strip() for s in pieces if s.strip()]
RECURSIVE StripNonEmpty(_)
StripNonEmpty(pieces) ==
    IF pieces = <<>> THEN <<>>
    ELSE (IF Strip(Head(pieces)) = <<>> THEN <<>> ELSE <<Strip(Head(pieces))>>)
         \o StripNonEmpty(Tail(pieces))

SplitSentences(s) == StripNonEmpty(ReSplit(s))

\* the external encoder: encode cuts the text into pieces of g characters
\* (the token ids), decode concatenates the pieces of a window
RECURSIVE Encode(_, _)
Encode(s, g) ==
    IF s = <<>> THEN <<>>
    ELSE <<SubSeq(s, 1, Min(g, Len(s)))>> \o Encode(SubSeq(s, Min(g, Len(s)) + 1, Len(s)), g)

Decode(toks) == Concat(toks)

\* ------------------------------------------------------- window arithmetic
\* variant of WindowEnd: the window is not clamped to the input
WindowEndUnclamped(st, mx, n) == st + mx

\* end = min(start + max, n)
WindowEnd(st, mx, n) == Min(st + mx, n)

\* variants of NextStart: the progress guard lacks its + 1; the overlap is
\* ignored; the overlap is one short; the overlap is one long
NextStartNoProgress(e, mx, ov) == Max(e - ov, e - mx)
NextStartNoOverlap(e, mx, ov) == e
NextStartOffByOne(e, mx, ov) == Max(e - ov + 1, e - mx + 1)
NextStartWiderOverlap(e, mx, ov) == Max(e - ov - 1, e - mx + 1)

\* start = max(end - overlap, end - max + 1)
NextStart(e, mx, ov) == Max(e - ov, e - mx + 1)

\* len(current) + (1 if current else 0) + len(s) <= max_chars or not current
Fits(cur, s, mx) == (Len(cur) + (IF cur # <<>> THEN 1 ELSE 0) + Len(s)) <= mx \/ cur = <<>>

\* current = (current + " " + s).strip() if current else s
Extend(cur, s) == IF cur # <<>> THEN Strip(cur \o <<" ">> \o s) ELSE s

\* current = current[-overlap_chars:] if overlap_chars > 0 else ""
Reseed(cur, ov) == IF ov > 0 THEN LastChars(cur, ov) ELSE <<>>

\* variant of FinalFlush: the rest of the buffer is forgotten
FinalFlushDropped(cs, cur) == cs

\* if current: chunks.append(current)
FinalFlush(cs, cur) == IF cur # <<>> THEN Append(cs, cur) ELSE cs

\* ------------------------------------------------------------------ state
VARIABLES
    fn,         \* the function called: "char", "sent" or "token"
    text,       \* argument text
    maxSize,    \* argument max_chars / max_tokens
    overlap,    \* argument overlap_chars / overlap
    env,        \* what importing tiktoken and get_encoding will do
    pc,         \* position in the function body
    encoder,    \* local encoder: "unset", "none" (None) or "ext"
    units,      \* local tokens / words
    sentences,  \* local sentences
    start,      \* local start
    end,        \* local end
    i,          \* local i
    current,    \* local current
    chunks,     \* local chunks, the result
    windows,    \* history: the <<start, end>> of every window appended
    err         \* the exception that left the function, "none" if none

vars == <<fn, text, maxSize, overlap, env, pc, encoder, units, sentences,
          start, end, i, current, chunks, windows, err>>

Envs == {"missing", "unknown", "ok"}

ValidArgs == maxSize > 0 /\ overlap >= 0

Init ==
    /\ fn \in {"char", "sent", "token"}
    /\ text \in Texts(MaxLen)
    /\ maxSize \in 0..MaxSize
    /\ overlap \in (-1)..MaxOverlap
    /\ env \in (IF fn = "token" THEN Envs ELSE {"missing"})
    /\ pc = "call"
    /\ encoder = "unset"
    /\ units = <<>>
    /\ sentences = <<>>
    /\ start = 0
    /\ end = 0
    /\ i = 0
    /\ current = <<>>
    /\ chunks = <<>>
    /\ windows = <<>>
    /\ err = "none"

\* ---------------------------------------------------------------- actions
\* raise ValueError(...) of any of the three functions
RaiseInvalid ==
    /\ pc = "call"
    /\ ~ValidArgs
    /\ pc' = "raised"
    /\ err' = "ValueError"
    /\ UNCHANGED <<fn, text, maxSize, overlap, env, encoder, units, sentences,
                   start, end, i, current, chunks, windows>>

\* chunk_text_charwise up to the loop
CharEnter ==
    /\ pc = "call" /\ fn = "char"
    /\ ValidArgs
    /\ chunks' = <<>>
    /\ start' = 0
    /\ pc' = "char_loop"
    /\ UNCHANGED <<fn, text, maxSize, overlap, env, encoder, units, sentences,
                   end, i, current, windows, err>>

\* one test of the while condition and, if it holds, one iteration, over n
\* units; piece is the text of the window [start, end) of this iteration
\* (the three loops of the module are this same loop)
WindowStep(n, piece, loop) ==
    IF start < n
    THEN LET e == WindowEnd(start, maxSize, n) IN
         /\ end' = e
         /\ chunks' = Append(chunks, piece)
         /\ windows' = Append(windows, <<start, e>>)
         /\ IF e = n
            THEN pc' = "done" /\ start' = start
            ELSE pc' = loop /\ start' = NextStart(e, maxSize, overlap)
    ELSE /\ pc' = "done"
         /\ UNCHANGED <<start, end, chunks, windows>>

\* text[start:end]
CharPiece == Slice(text, start, WindowEnd(start, maxSize, Len(text)))

CharStep ==
    /\ pc = "char_loop"
    /\ WindowStep(Len(text), CharPiece, "char_loop")
    /\ UNCHANGED <<fn, text, maxSize, overlap, env, encoder, units, sentences,
                   i, current, err>>

\* _try_get_tokenizer: None when the import or get_encoding raises
TryGetTokenizer(e) == IF e = "ok" THEN "ext" ELSE "none"

\* chunk_text_tokenwise up to encoder = _try_get_tokenizer(tokenizer_name)
TokResolve ==
    /\ pc = "call" /\ fn = "token"
    /\ ValidArgs
    /\ encoder' = TryGetTokenizer(env)
    /\ pc' = "encode"
    /\ UNCHANGED <<fn, text, maxSize, overlap, env, units, sentences,
                   start, end, i, current, chunks, windows, err>>

\* tokens = encoder.encode(text), which returns the token ids
EncodeOk ==
    /\ pc = "encode" /\ encoder = "ext"
    /\ \E g \in 1..MaxPiece : units' = Encode(text, g)
    /\ chunks' = <<>>
    /\ start' = 0
    /\ pc' = "tok_loop"
    /\ UNCHANGED <<fn, text, maxSize, overlap, env, encoder, sentences,
                   end, i, current, windows, err>>

\* tokens = encoder.encode(text), which raises: nothing catches it
EncodeRaises ==
    /\ pc = "encode" /\ encoder = "ext"
    /\ pc' = "raised"
    /\ err' = "EncoderError"
    /\ UNCHANGED <<fn, text, maxSize, overlap, env, encoder, units, sentences,
                   start, end, i, current, chunks, windows>>

\* words = text.split()
SplitWords ==
    /\ pc = "encode" /\ encoder = "none"
    /\ units' = Words(text)
    /\ chunks' = <<>>
    /\ start' = 0
    /\ pc' = "word_loop"
    /\ UNCHANGED <<fn, text, maxSize, overlap, env, encoder, sentences,
                   end, i, current, windows, err>>

\* encoder.decode(tokens[start:end])
TokPiece == Decode(Slice(units, start, WindowEnd(start, maxSize, Len(units))))

\* " ".join(words[start:end])
WordPiece == Join(Slice(units, start, WindowEnd(start, maxSize, Len(units))))

\* an iteration of the encoder branch whose decode returns
TokStep ==
    /\ pc = "tok_loop"
    /\ WindowStep(Len(units), TokPiece, "tok_loop")
    /\ UNCHANGED <<fn, text, maxSize, overlap, env, encoder, units, sentences,
                   i, current, err>>

\* an iteration of the encoder branch whose decode raises
DecodeRaises ==
    /\ pc = "tok_loop"
    /\ start < Len(units)
    /\ end' = WindowEnd(start, maxSize, Len(units))
    /\ pc' = "raised"
    /\ err' = "EncoderError"
    /\ UNCHANGED <<fn, text, maxSize, overlap, env, encoder, units, sentences,
                   start, i, current, chunks, windows>>

\* an iteration of the whitespace branch
WordStep ==
    /\ pc = "word_loop"
    /\ WindowStep(Len(units), WordPiece, "word_loop")
    /\ UNCHANGED <<fn, text, maxSize, overlap, env, encoder, units, sentences,
                   i, current, err>>

\* chunk_text_sentencewise up to the loop
SentEnter ==
    /\ pc = "call" /\ fn = "sent"
    /\ ValidArgs
    /\ sentences' = SplitSentences(text)
    /\ chunks' = <<>>
    /\ current' = <<>>
    /\ i' = 0
    /\ pc' = "sent_loop"
    /\ UNCHANGED <<fn, text, maxSize, overlap, env, encoder, units,
                   start, end, windows, err>>

\* the sentence the loop is at, sentences[i]
Sentence == sentences[i + 1]

\* the if branch: the sentence joins the buffer
SentConsume ==
    /\ pc = "sent_loop"
    /\ i < Len(sentences)
    /\ Fits(current, Sentence, maxSize)
    /\ current' = Extend(current, Sentence)
    /\ i' = i + 1
    /\ UNCHANGED <<fn, text, maxSize, overlap, env, pc, encoder, units, sentences,
                   start, end, chunks, windows, err>>

\* the else branch: the buffer is emitted and reseeded, i stays
SentOverflow ==
    /\ pc = "sent_loop"
    /\ i < Len(sentences)
    /\ ~Fits(current, Sentence, maxSize)
    /\ Len(chunks) < MaxChunks
    /\ chunks' = Append(chunks, current)
    /\ current' = Reseed(current, overlap)
    /\ UNCHANGED <<fn, text, maxSize, overlap, env, pc, encoder, units, sentences,
                   start, end, i, windows, err>>

\* the loop is left: the rest of the buffer is emitted and chunks returned
SentFinish ==
    /\ pc = "sent_loop"
    /\ i >= Len(sentences)
    /\ chunks' = FinalFlush(chunks, current)
    /\ pc' = "done"
    /\ UNCHANGED <<fn, text, maxSize, overlap, env, encoder, units, sentences,
                   start, end, i, current, windows, err>>

Next ==
    \/ RaiseInvalid
    \/ CharEnter
    \/ CharStep
    \/ TokResolve
    \/ EncodeOk
    \/ EncodeRaises
    \/ SplitWords
    \/ TokStep
    \/ DecodeRaises
    \/ WordStep
    \/ SentEnter
    \/ SentConsume
    \/ SentOverflow
    \/ SentFinish

Spec == Init /\ [][Next]_vars

\* ------------------------------------------------------------- properties
Range(f) == {f[k] : k \in DOMAIN f}

CeilDiv(a, b) == (a + b - 1) \div b

TakeFirst(s, k) == SubSeq(s, 1, Min(k, Len(s)))

DropFirst(s, k) == SubSeq(s, k + 1, Len(s))

Done == pc = "done"

CharCall == fn = "char" /\ ValidArgs

\* the number of units the window loop at hand runs over
LoopLen == IF fn = "char" THEN Len(text) ELSE Len(units)

InWindowLoop == pc \in {"char_loop", "tok_loop", "word_loop"}

\* C1: chunk_text_sentencewise terminates for all valid arguments.  The loop
\* is deterministic and its state is (i, current), so it terminates exactly
\* when every iteration that stays in the loop either consumes a sentence
\* (i grows) or shortens the buffer; an iteration that does neither leaves
\* (i, current) as it was and is repeated for ever.
SentenceLoopProgress ==
    [][(pc = "sent_loop" /\ pc' = "sent_loop")
         => (i' > i \/ Len(current') < Len(current))]_vars

\* C2: in the window loops of chunk_text_charwise and of both branches of
\* chunk_text_tokenwise, every iteration that does not break moves start to
\* at least the previous start + 1 and at most the previous end; there are
\* at most n iterations, and the last window ends at n.
WindowProgress ==
    (fn \in {"char", "token"} /\ (InWindowLoop \/ Done)) =>
        /\ \A k \in 1..(Len(windows) - 1) :
              /\ windows[k + 1][1] >= windows[k][1] + 1
              /\ windows[k + 1][1] <= windows[k][2]
        /\ (InWindowLoop /\ windows # <<>>) =>
              /\ start >= windows[Len(windows)][1] + 1
              /\ start <= windows[Len(windows)][2]
        /\ Len(windows) <= LoopLen
        /\ (Done /\ LoopLen > 0) =>
              (windows # <<>> /\ windows[Len(windows)][2] = LoopLen)

WindowProgressWitness ==
    /\ fn = "token" /\ encoder = "ext" /\ Done
    /\ overlap >= maxSize
    /\ Len(windows) >= 3

\* C3 as stated: with 0 <= overlap_chars < max_chars and a non-empty text,
\* chunk_text_charwise returns ceil(len(text) / (max_chars - overlap_chars))
\* chunks.
CountIsCeilOfStep ==
    (CharCall /\ Done /\ Len(text) > 0 /\ overlap < maxSize) =>
        Len(chunks) = CeilDiv(Len(text), maxSize - overlap)

\* C3 as amended: with 0 <= overlap_chars < max_chars and a non-empty text,
\* chunk_text_charwise returns one chunk if len(text) <= max_chars and
\* 1 + ceil((len(text) - max_chars) / (max_chars - overlap_chars)) otherwise.
CountIsCeilAfterFirst ==
    (CharCall /\ Done /\ Len(text) > 0 /\ overlap < maxSize) =>
        Len(chunks) = IF Len(text) <= maxSize THEN 1
                      ELSE 1 + CeilDiv(Len(text) - maxSize, maxSize - overlap)

CountWitness ==
    /\ CharCall /\ Done
    /\ overlap > 0 /\ overlap < maxSize
    /\ Len(text) > maxSize
    /\ Len(chunks) >= 3
    /\ Len(chunks) # CeilDiv(Len(text), maxSize - overlap)

\* the first chunk followed by every later chunk less its first k characters
RECURSIVE JoinTails(_, _)
JoinTails(cs, k) ==
    IF cs = <<>> THEN <<>> ELSE DropFirst(Head(cs), k) \o JoinTails(Tail(cs), k)

FirstThenTails(cs, k) ==
    IF cs = <<>> THEN <<>> ELSE Head(cs) \o JoinTails(Tail(cs), k)

\* the first k characters of every chunk but the last, then the last chunk
RECURSIVE HeadsThenLast(_, _)
HeadsThenLast(cs, k) ==
    IF cs = <<>> THEN <<>>
    ELSE IF Len(cs) = 1 THEN Head(cs)
    ELSE TakeFirst(Head(cs), k) \o HeadsThenLast(Tail(cs), k)

\* C4: with 0 <= overlap_chars < max_chars, the result of chunk_text_charwise
\* gives the text back: the first chunk followed by every later chunk without
\* its first overlap_chars characters, and equally the first
\* max_chars - overlap_chars characters of every chunk but the last followed
\* by the last chunk.
RoundTrip ==
    (CharCall /\ Done /\ overlap < maxSize) =>
        /\ FirstThenTails(chunks, overlap) = text
        /\ HeadsThenLast(chunks, maxSize - overlap) = text

RoundTripWitness ==
    /\ CharCall /\ Done
    /\ overlap > 0 /\ overlap < maxSize
    /\ Len(chunks) >= 3
    /\ Cardinality(Range(text)) >= 2

\* adjacent chunks k, k + 1 share their overlap_chars boundary characters
SharedBoundary(k) ==
    (Len(chunks[k]) >= overlap /\ Len(chunks[k + 1]) >= overlap) =>
        LastChars(chunks[k], overlap) = TakeFirst(chunks[k + 1], overlap)

\* C5 as stated: for chunk_text_charwise with any overlap_chars > 0 and more
\* than one chunk, adjacent chunks that are both at least overlap_chars long
\* share their overlap_chars boundary characters.
OverlapShared ==
    (CharCall /\ Done /\ overlap > 0 /\ Len(chunks) > 1) =>
        \A k \in 1..(Len(chunks) - 1) : SharedBoundary(k)

\* C5 as amended: the same for 0 < overlap_chars < max_chars.
OverlapSharedBelowMax ==
    (CharCall /\ Done /\ overlap > 0 /\ overlap < maxSize /\ Len(chunks) > 1) =>
        \A k \in 1..(Len(chunks) - 1) : SharedBoundary(k)

OverlapWitness ==
    /\ CharCall /\ Done
    /\ overlap > 0 /\ overlap < maxSize
    /\ Len(chunks) > 1
    /\ \E k \in 1..(Len(chunks) - 1) :
          /\ Len(chunks[k + 1]) >= overlap
          /\ chunks[k] # chunks[k + 1]

Oversized(s) == Len(s) > maxSize

\* C6: in chunk_text_sentencewise every sentence longer than max_chars is
\* consumed and is in the output whole, as a chunk of its own.  Line 84
\* admits such a sentence only to an empty buffer, so it is consumed exactly
\* when an iteration that keeps the loop at it leaves the buffer empty; and
\* what was returned holds every such sentence as a chunk.
OversizedEmitted ==
    /\ []((fn = "sent" /\ Done) =>
            \A k \in 1..Len(sentences) :
                Oversized(sentences[k]) => sentences[k] \in Range(chunks))
    /\ [][(pc = "sent_loop" /\ pc' = "sent_loop" /\ i < Len(sentences)
             /\ Oversized(Sentence) /\ i' = i)
           => current' = <<>>]_vars

\* the result of the whitespace branch of chunk_text_tokenwise, as a function
RECURSIVE WordChunksFrom(_, _, _, _)
WordChunksFrom(ws, st, mx, ov) ==
    IF st < Len(ws)
    THEN LET e == WindowEnd(st, mx, Len(ws)) IN
         <<Join(Slice(ws, st, e))>>
         \o (IF e = Len(ws) THEN <<>> ELSE WordChunksFrom(ws, NextStart(e, mx, ov), mx, ov))
    ELSE <<>>

FallbackChunks(t, mx, ov) == WordChunksFrom(Words(t), 0, mx, ov)

\* C7: with valid arguments chunk_text_tokenwise never lets a failure of the
\* external tokenizer out (missing dependency, unknown name, an error raised
\* by encode or decode): the call returns, and returns the whitespace
\* chunking of the text.
TokenizerFailureContained ==
    (fn = "token" /\ ValidArgs) =>
        /\ pc # "raised"
        /\ (Done /\ env # "ok") => chunks = FallbackChunks(text, maxSize, overlap)

\* the text is shorter than one chunk of the function called
ShorterThanChunk ==
    IF fn = "token" THEN Len(Words(text)) < maxSize ELSE Len(text) < maxSize

ShortCall ==
    /\ ValidArgs /\ Done
    /\ fn \in {"char", "sent"} \/ (fn = "token" /\ encoder = "none")
    /\ ShorterThanChunk

\* C8 as stated: for the three functions (tokenwise in its whitespace
\* branch), a text shorter than one chunk gives no chunk if it is empty and
\* exactly one chunk if it is not, whitespace-only texts included.
ShortTextOneChunk ==
    ShortCall => Len(chunks) = IF text = <<>> THEN 0 ELSE 1

\* C8 as amended: a text shorter than one chunk gives no chunk if it is
\* empty, or, for chunk_text_sentencewise and the whitespace branch of
\* chunk_text_tokenwise, if it is made only of whitespace; every other such
\* text gives exactly one chunk (for chunk_text_charwise a whitespace-only
\* text too).
ShortTextOneChunkUnlessBlank ==
    ShortCall =>
        Len(chunks) = IF fn = "char"
                      THEN (IF text = <<>> THEN 0 ELSE 1)
                      ELSE (IF Strip(text) = <<>> THEN 0 ELSE 1)

ShortTextWitness ==
    /\ ShortCall
    /\ fn = "sent"
    /\ Len(sentences) >= 2
    /\ Len(chunks) = 1

\* C9: for chunk_text_charwise with any valid arguments every chunk but the
\* last is exactly max_chars long, the last is 1..max_chars long, every
\* chunk is text[start:end] of its window, the first window starts at 0,
\* every later one no later than the end of the one before, and the last
\* one ends at len(text).
CharChunkShape ==
    (CharCall /\ Done) =>
        /\ Len(windows) = Len(chunks)
        /\ \A k \in 1..Len(chunks) :
              /\ chunks[k] = Slice(text, windows[k][1], windows[k][2])
              /\ Len(chunks[k]) >= 1 /\ Len(chunks[k]) <= maxSize
              /\ k < Len(chunks) => Len(chunks[k]) = maxSize
              /\ k = 1 => windows[k][1] = 0
              /\ k > 1 => windows[k][1] <= windows[k - 1][2]
              /\ k = Len(chunks) => windows[k][2] = Len(text)

CharChunkShapeWitness ==
    /\ CharCall /\ Done
    /\ overlap >= maxSize
    /\ Len(chunks) >= 3
    /\ Len(text) > maxSize

\* C10: in chunk_text_sentencewise every chunk appended that is longer than
\* max_chars is one whole input sentence.
LongChunkIsSentence ==
    (fn = "sent" /\ ValidArgs) =>
        \A k \in 1..Len(chunks) :
            Len(chunks[k]) > maxSize => chunks[k] \in Range(sentences)

====
